---- MODULE Spec2Model ----
(***************************************************************************)
(* A model of the DNSpy wire codec (src/dns_packet.py): DomainName,        *)
(* DnsQuestion, DnsRecord and DnsPacket parsing and encoding.              *)
(* Buffers are sequences of octets 0..255; Python offsets are 0-based.     *)
(***************************************************************************)
EXTENDS Integers, Sequences, FiniteSets, TLC

VARIABLES mode, data, layout, start, nameRes, recRes, pktRes, lists, pkts, wire, decoded, last

vars == <<mode, data, layout, start, nameRes, recRes, pktRes, lists, pkts, wire, decoded, last>>

(* ---------------------------- bounds ----------------------------------- *)
\* CPython aborts a recursion deeper than sys.getrecursionlimit() with a
\* RecursionError; the interpreter's limit (1000) is scaled down here.
RecursionLimit == 3
\* the number of chunks a name buffer is put together from
MaxChunks == 4
\* the number of questions/records/padding items after a message header
MaxItems == 3
\* the number of DnsPacket objects constructed, and of entries held by all
\* section lists together
MaxPkts == 2
MaxEntries == 2

(* ---------------------------- octets ----------------------------------- *)
None == [ok |-> FALSE, err |-> "none"]

Min(a, b) == IF a < b THEN a ELSE b

\* data[i] for a 0-based index i that is in range
Byte(d, i) == d[i + 1]

\* the Python slice d[a:b] for 0 <= a: silently truncated at the end
Slice(d, a, b) == SubSeq(d, a + 1, Min(b, Len(d)))

RECURSIVE Flatten(_)
Flatten(ss) == IF ss = <<>> THEN <<>> ELSE Head(ss) \o Flatten(Tail(ss))

\* An unsigned 32-bit value v is held as its two 16-bit halves
\* <<v \div 65536, v % 65536>>, so that no value leaves the 32-bit integers of TLC.
W32(n) == <<n \div 65536, n % 65536>>
\* struct.pack('!H', v) and struct.pack('!I', v)
U16(v) == <<v \div 256, v % 256>>
U32(v) == U16(v[1]) \o U16(v[2])
\* struct.unpack_from('!H', d, i) and ('!I', d, i), for fields that are in range
GetU16(d, i) == Byte(d, i) * 256 + Byte(d, i + 1)
GetU32(d, i) == <<GetU16(d, i), GetU16(d, i + 2)>>

(* ---------------------------- DomainName ------------------------------- *)
\* string.ascii_letters + string.digits + '-'
allowed_charset == (48..57) \cup (65..90) \cup (97..122) \cup {45}

\* DomainName.__init__: an empty label list becomes the root name ['']
DomainName(labels) == IF labels = <<>> THEN << <<>> >> ELSE labels

RECURSIVE SumLen(_)
\* sum(map(len, sequence))
SumLen(seq) == IF seq = <<>> THEN 0 ELSE Len(Head(seq)) + SumLen(Tail(seq))

\* the limit of the running length check
NameLimit == 256

\* assert (sum(map(len, sequence)) < 256)
LengthCheck(sequence) == SumLen(sequence) < NameLimit

\* a target check that compares against the wrong limit
PointerTargetOk_AnyOctet(d, ptr) == Byte(d, ptr) < 256

\* assert data[ptr] < 64  # Don't allow pointers to pointers
PointerTargetOk(d, ptr) == Byte(d, ptr) < 64

\* a pointer value that keeps the two tag bits of the first octet
PointerValue_Unmasked(b0, b1) == b0 * 256 + b1

\* ptr = ((data[offset] & 0b00111111) << 8) | data[offset + 1]
PointerValue(b0, b1) == (b0 % 64) * 256 + b1

NameOk(name, offset, jumps) ==
    [ok |-> TRUE, err |-> "", name |-> name, offset |-> offset, jumps |-> jumps]
NameFail(e, jumps) ==
    [ok |-> FALSE, err |-> e, name |-> <<>>, offset |-> 0, jumps |-> jumps]

RECURSIVE parse_from_at(_, _, _, _)
\* DomainName.parse_from, from the head of its while loop, in the activation
\* at recursion depth `depth` with the labels read so far in `sequence`
parse_from_at(d, offset, sequence, depth) ==
    IF offset >= Len(d) THEN NameFail("IndexError", 0)
    ELSE LET b == Byte(d, offset) IN
      IF b = 0 THEN NameOk(DomainName(sequence), offset + 1, 0)
      ELSE IF b < 64 THEN
        LET label == Slice(d, offset + 1, offset + 1 + b)
            seq2 == Append(sequence, label)
        IN IF \E i \in 1..Len(label) : label[i] >= 128
             THEN NameFail("UnicodeDecodeError", 0)
           ELSE IF \E i \in 1..Len(label) : label[i] \notin allowed_charset
             THEN NameFail("InvalidLabelCharset", 0)
           ELSE IF ~LengthCheck(seq2) THEN NameFail("NameTooLong", 0)
           ELSE parse_from_at(d, offset + b + 1, seq2, depth)
      ELSE IF b >= 192 THEN
        IF offset + 1 >= Len(d) THEN NameFail("IndexError", 0)
        ELSE LET ptr == PointerValue(b, Byte(d, offset + 1)) IN
          IF ptr >= Len(d) THEN NameFail("IndexError", 0)
          ELSE IF ~PointerTargetOk(d, ptr) THEN NameFail("PointerToPointer", 0)
          ELSE IF depth >= RecursionLimit THEN NameFail("RecursionError", 0)
          ELSE LET inner == parse_from_at(d, ptr, <<>>, depth + 1) IN
            IF ~inner.ok THEN NameFail(inner.err, inner.jumps + 1)
            ELSE NameOk(DomainName(sequence \o inner.name), offset + 2,
                        inner.jumps + 1)
      ELSE NameFail("InvalidLabelControlByte", 0)

\* DomainName.parse_from(data, offset)
parse_from(d, offset) == parse_from_at(d, offset, <<>>, 0)

RECURSIVE EncodeLabels(_)
EncodeLabels(name) ==
    IF name = <<>> \/ Head(name) = <<>> THEN <<>>
    ELSE <<Len(Head(name))>> \o Head(name) \o EncodeLabels(Tail(name))

\* DomainName.encode: stops at the first empty label, then the terminator
\* (labels here are at most 255 octets of ASCII, so bytearray.append and
\* bytes(label, 'ascii') do not raise)
DomainName_encode(name) == EncodeLabels(name) \o <<0>>

(* ---------------------------- enums ------------------------------------ *)
\* DNSpy.enums: the record types the codec names, and the values DnsOpCode
\* and DnsResponseCode accept (RFC 1035)
TypeA == 1
TypeNS == 2
TypeCNAME == 5
TypeSOA == 6
TypePTR == 12
DnsOpCodeValues == {0, 1, 2}
DnsResponseCodeValues == 0..5

(* ---------------------------- DnsQuestion ------------------------------ *)
\* DnsQuestion.__init__
Question(qname, qtype, qclass) == [name |-> qname, qtype |-> qtype, qclass |-> qclass]

QFail(e) == [ok |-> FALSE, err |-> e, q |-> Question(<<>>, 0, 0), offset |-> 0]

\* DnsQuestion.parse after its name n was parsed: qtype and qclass
QuestionAfterName(d, n) ==
    IF ~n.ok THEN QFail(n.err)
    ELSE IF n.offset + 4 > Len(d) THEN QFail("BufferTruncated")
    ELSE [ok |-> TRUE, err |-> "",
          q |-> Question(n.name, GetU16(d, n.offset), GetU16(d, n.offset + 2)),
          offset |-> n.offset + 4]

\* DnsQuestion.parse(data, offset)
DnsQuestion_parse(d, offset) == QuestionAfterName(d, parse_from(d, offset))

\* DnsQuestion.encode
DnsQuestion_encode(q) == DomainName_encode(q.name) \o U16(q.qtype) \o U16(q.qclass)

(* ---------------------------- RData ------------------------------------ *)
BytesOk(b) == [ok |-> TRUE, err |-> "", bytes |-> b]
BytesFail(e) == [ok |-> FALSE, err |-> e, bytes |-> <<>>]

\* RData_SingleName(name).encode()
SingleNameBytes(n) ==
    IF ~n.ok THEN BytesFail(n.err) ELSE BytesOk(DomainName_encode(n.name))

\* RData_SingleName.parse(data, offset).encode()
RData_SingleName_reencode(d, offset) == SingleNameBytes(parse_from(d, offset))

\* RData_SOA.parse after mname m and rname r, and RData_SOA.encode
SoaAfterRname(d, m, r) ==
    IF ~r.ok THEN BytesFail(r.err)
    ELSE IF r.offset + 16 > Len(d) THEN BytesFail("BufferTruncated")
    ELSE BytesOk(DomainName_encode(m.name) \o DomainName_encode(r.name)
                 \o U32(GetU32(d, r.offset)) \o U32(GetU32(d, r.offset + 4))
                 \o U32(GetU32(d, r.offset + 8)) \o U32(GetU32(d, r.offset + 12)))

\* RData_SOA.parse after mname m
SoaAfterMname(d, m) ==
    IF ~m.ok THEN BytesFail(m.err)
    ELSE SoaAfterRname(d, m, parse_from(d, m.offset))

\* RData_SOA.parse(data, offset).encode()
RData_SOA_reencode(d, offset) == SoaAfterMname(d, parse_from(d, offset))

\* if rtype in [DnsRType.NS, DnsRType.SOA, DnsRType.CNAME, DnsRType.PTR]
CompressionAllowed(rtype) == rtype \in {TypeNS, TypeSOA, TypeCNAME, TypePTR}

\* RData.get_handler(rtype).parse(data, offset).encode() for those types
RData_reencode(rtype, d, offset) ==
    IF rtype = TypeSOA THEN RData_SOA_reencode(d, offset)
    ELSE RData_SingleName_reencode(d, offset)

(* ---------------------------- DnsRecord -------------------------------- *)
\* DnsRecord.__init__: rdlength is taken from the rdata given
Record(name, rtype, rclass, ttl, rdata) ==
    [name |-> name, rtype |-> rtype, rclass |-> rclass, ttl |-> ttl,
     rdlength |-> Len(rdata), rdata |-> rdata,
     has_compressed |-> FALSE, compressed_rdata |-> <<>>]

RFail(e) == [ok |-> FALSE, err |-> e, rec |-> Record(<<>>, 0, 0, W32(0), <<>>),
             offset |-> 0, rdata_offset |-> 0, wire_rdlength |-> 0]

\* a comparison of the two encodings by length only
RDataDiffers_ByLength(uncompressed_rdata, compressed_rdata) ==
    Len(uncompressed_rdata) # Len(compressed_rdata)

\* if uncompressed_rdata != compressed_rdata
RDataDiffers(uncompressed_rdata, compressed_rdata) ==
    uncompressed_rdata # compressed_rdata

\* offset += rdlength
AfterRData(offset, rdlength) == offset + rdlength

\* the end of DnsRecord.parse: plain is the record built from the raw slice
\* compressed_rdata, u the payload decoded from the whole buffer and re-encoded
RecordWithRData(plain, compressed_rdata, u) ==
    IF ~u.ok THEN RFail(u.err)
    ELSE IF RDataDiffers(u.bytes, compressed_rdata) THEN
      [plain EXCEPT !.rec =
          [Record(plain.rec.name, plain.rec.rtype, plain.rec.rclass,
                  plain.rec.ttl, u.bytes) EXCEPT
              !.has_compressed = TRUE,
              !.compressed_rdata = compressed_rdata]]
    ELSE plain

\* DnsRecord.parse from the slicing of the RDATA on; rdata_offset and
\* wire_rdlength report the offset after the fixed header and the rdlength
\* read from the wire
RecordAfterHeader(d, name, rtype, rclass, ttl, rdlength, off) ==
    IF Len(Slice(d, off, off + rdlength)) # rdlength THEN RFail("BufferTruncated")
    ELSE IF ~CompressionAllowed(rtype)
      THEN [ok |-> TRUE, err |-> "",
            rec |-> Record(name, rtype, rclass, ttl, Slice(d, off, off + rdlength)),
            offset |-> AfterRData(off, rdlength),
            rdata_offset |-> off, wire_rdlength |-> rdlength]
    ELSE RecordWithRData(
           [ok |-> TRUE, err |-> "",
            rec |-> Record(name, rtype, rclass, ttl, Slice(d, off, off + rdlength)),
            offset |-> AfterRData(off, rdlength),
            rdata_offset |-> off, wire_rdlength |-> rdlength],
           Slice(d, off, off + rdlength),
           RData_reencode(rtype, d, off))

\* DnsRecord.parse after its name n was parsed: the fixed 10-octet header
RecordAfterName(d, n) ==
    IF ~n.ok THEN RFail(n.err)
    ELSE IF n.offset + 10 > Len(d) THEN RFail("BufferTruncated")
    ELSE RecordAfterHeader(d, n.name, GetU16(d, n.offset), GetU16(d, n.offset + 2),
                           GetU32(d, n.offset + 4), GetU16(d, n.offset + 8),
                           n.offset + 10)

\* DnsRecord.parse(data, offset)
DnsRecord_parse(d, offset) == RecordAfterName(d, parse_from(d, offset))

\* DnsRecord.encode
DnsRecord_encode(r) ==
    DomainName_encode(r.name) \o U16(r.rtype) \o U16(r.rclass) \o U32(r.ttl)
        \o U16(r.rdlength) \o r.rdata

(* ---------------------------- DnsPacket -------------------------------- *)
B2I(b) == IF b THEN 1 ELSE 0

\* the fields DnsPacket.__init__ stores; the four sections are held by value
\* here and by reference (see lists) for packets built programmatically
Packet(ID, QR, OPCODE, AA, TC, RD, RA, Z, RCODE, QDCOUNT, ANCOUNT, NSCOUNT, ARCOUNT, questions, answers, nameservers, additional_records, suffix) ==
    [ID |-> ID, QR |-> QR, OPCODE |-> OPCODE, AA |-> AA, TC |-> TC, RD |-> RD,
     RA |-> RA, Z |-> Z, RCODE |-> RCODE,
     QDCOUNT |-> QDCOUNT, ANCOUNT |-> ANCOUNT, NSCOUNT |-> NSCOUNT,
     ARCOUNT |-> ARCOUNT,
     questions |-> questions, answers |-> answers, nameservers |-> nameservers,
     additional_records |-> additional_records, suffix |-> suffix]

EmptyPacket == Packet(0, 0, 0, FALSE, FALSE, FALSE, FALSE, 0, 0, 0, 0, 0, 0,
                      <<>>, <<>>, <<>>, <<>>, <<>>)

PFail(e) == [ok |-> FALSE, err |-> e, pkt |-> EmptyPacket, offset |-> 0, cls |-> ""]

QuestionsOk(questions, offset) ==
    [ok |-> TRUE, err |-> "", items |-> questions, offset |-> offset]
QuestionsFail(e) == [ok |-> FALSE, err |-> e, items |-> <<>>, offset |-> 0]

RECURSIVE ParseQuestions(_, _, _, _)
\* one turn of the question loop, q being the question just parsed
NextQuestion(d, q, QDCOUNT, questions) ==
    IF ~q.ok THEN QuestionsFail(q.err)
    ELSE ParseQuestions(d, q.offset, QDCOUNT, Append(questions, q.q))

\* while len(questions) < QDCOUNT: parse a question and append it
ParseQuestions(d, offset, QDCOUNT, questions) ==
    IF ~(Len(questions) < QDCOUNT) THEN QuestionsOk(questions, offset)
    ELSE NextQuestion(d, DnsQuestion_parse(d, offset), QDCOUNT, questions)

\* while offset < len(data)
MoreRecords(d, offset) == offset < Len(d)

SectionsOk(answers, nameservers, additional_records, offset) ==
    [ok |-> TRUE, err |-> "", answers |-> answers, nameservers |-> nameservers,
     additional_records |-> additional_records, offset |-> offset]
SectionsFail(e) == [ok |-> FALSE, err |-> e, answers |-> <<>>,
                    nameservers |-> <<>>, additional_records |-> <<>>, offset |-> 0]

RECURSIVE ParseRecords(_, _, _, _, _, _, _, _)
\* one turn of the record loop: the record r just parsed goes to the first
\* section with quota left
RouteRecord(d, r, answers, nameservers, additional_records, ANCOUNT, NSCOUNT, ARCOUNT) ==
    IF ~r.ok THEN SectionsFail(r.err)
    ELSE IF Len(answers) < ANCOUNT
      THEN ParseRecords(d, r.offset, Append(answers, r.rec), nameservers,
                        additional_records, ANCOUNT, NSCOUNT, ARCOUNT)
    ELSE IF Len(nameservers) < NSCOUNT
      THEN ParseRecords(d, r.offset, answers, Append(nameservers, r.rec),
                        additional_records, ANCOUNT, NSCOUNT, ARCOUNT)
    ELSE IF Len(additional_records) < ARCOUNT
      THEN ParseRecords(d, r.offset, answers, nameservers,
                        Append(additional_records, r.rec),
                        ANCOUNT, NSCOUNT, ARCOUNT)
    ELSE SectionsFail("RecordCountMismatch")

\* the record loop of DnsPacket.parse
ParseRecords(d, offset, answers, nameservers, additional_records, ANCOUNT, NSCOUNT, ARCOUNT) ==
    IF ~MoreRecords(d, offset)
      THEN SectionsOk(answers, nameservers, additional_records, offset)
    ELSE RouteRecord(d, DnsRecord_parse(d, offset), answers, nameservers,
                     additional_records, ANCOUNT, NSCOUNT, ARCOUNT)

\* the final asserts without the one on the answers
CountsMatch_NoAnswers(nq, na, nn, nr, QDCOUNT, ANCOUNT, NSCOUNT, ARCOUNT) ==
    /\ nq = QDCOUNT
    /\ nn = NSCOUNT
    /\ nr = ARCOUNT

\* the four asserts of the loop's else branch
CountsMatch(nq, na, nn, nr, QDCOUNT, ANCOUNT, NSCOUNT, ARCOUNT) ==
    /\ nq = QDCOUNT
    /\ na = ANCOUNT
    /\ nn = NSCOUNT
    /\ nr = ARCOUNT

\* the else branch of the record loop: the asserts, then the Query or
\* Response built from the header fields, the sections and the suffix
PacketAfterRecords(d, qs, rs) ==
    IF ~rs.ok THEN PFail(rs.err)
    ELSE IF ~CountsMatch(Len(qs.items), Len(rs.answers), Len(rs.nameservers),
                         Len(rs.additional_records), GetU16(d, 4), GetU16(d, 6),
                         GetU16(d, 8), GetU16(d, 10))
      THEN PFail("RecordCountMismatch")
    ELSE [ok |-> TRUE, err |-> "",
          pkt |-> Packet(GetU16(d, 0), Byte(d, 2) \div 128,
                         (Byte(d, 2) % 128) \div 8,
                         (Byte(d, 2) \div 4) % 2 = 1, (Byte(d, 2) \div 2) % 2 = 1,
                         Byte(d, 2) % 2 = 1, Byte(d, 3) \div 128 = 1,
                         (Byte(d, 3) % 128) \div 16, Byte(d, 3) % 16,
                         GetU16(d, 4), GetU16(d, 6), GetU16(d, 8), GetU16(d, 10),
                         qs.items, rs.answers, rs.nameservers,
                         rs.additional_records, Slice(d, rs.offset, Len(d))),
          offset |-> rs.offset,
          cls |-> IF Byte(d, 2) \div 128 = 0 THEN "Query" ELSE "Response"]

\* DnsPacket.parse after the question loop
PacketAfterQuestions(d, qs) ==
    IF ~qs.ok THEN PFail(qs.err)
    ELSE PacketAfterRecords(d, qs,
           ParseRecords(d, qs.offset, <<>>, <<>>, <<>>,
                        GetU16(d, 6), GetU16(d, 8), GetU16(d, 10)))

\* DnsPacket.parse(data, offset): the header fields, then the two loops
DnsPacket_parse_at(d, offset) ==
    IF Len(d) < 4 THEN PFail("BufferTruncated")
    ELSE IF (Byte(d, 2) % 128) \div 8 \notin DnsOpCodeValues
            \/ Byte(d, 3) % 16 \notin DnsResponseCodeValues
      THEN PFail("ValueError")
    ELSE IF Len(d) < 12 THEN PFail("BufferTruncated")
    ELSE PacketAfterQuestions(d, ParseQuestions(d, offset, GetU16(d, 4), <<>>))

\* DnsPacket.parse(data): offset defaults to 12
DnsPacket_parse(d) == DnsPacket_parse_at(d, 12)

\* the four count fields DnsPacket.encode packs into the header
HeaderCounts(p) == <<p.QDCOUNT, p.ANCOUNT, p.NSCOUNT, p.ARCOUNT>>

\* DnsPacket.encode, for a packet whose sections are held by value
DnsPacket_encode(p) ==
    U16(p.ID)
      \o <<p.QR * 128 + p.OPCODE * 8 + B2I(p.AA) * 4 + B2I(p.TC) * 2 + B2I(p.RD)>>
      \o <<B2I(p.RA) * 128 + p.Z * 16 + p.RCODE>>
      \o U16(HeaderCounts(p)[1]) \o U16(HeaderCounts(p)[2])
      \o U16(HeaderCounts(p)[3]) \o U16(HeaderCounts(p)[4])
      \o Flatten([i \in 1..Len(p.questions) |-> DnsQuestion_encode(p.questions[i])])
      \o Flatten([i \in 1..Len(p.answers) |-> DnsRecord_encode(p.answers[i])])
      \o Flatten([i \in 1..Len(p.nameservers) |-> DnsRecord_encode(p.nameservers[i])])
      \o Flatten([i \in 1..Len(p.additional_records) |->
                    DnsRecord_encode(p.additional_records[i])])

(* ------------------- inputs of the name decoder ------------------------ *)
\* a buffer is put together from chunks: labels, terminators, pointers and
\* malformed octets
L1 == <<1, 97>>
L63 == <<63>> \o [i \in 1..63 |-> 97]
Chunk(c) ==
    CASE c = "L1"  -> L1
      [] c = "L63" -> L63
      [] c = "D"   -> L63 \o L63
      [] c = "T"   -> <<0>>
      [] c = "P0"  -> <<192, 0>>
      [] c = "P3"  -> <<192, 3>>
      [] c = "X"   -> <<64>>
      [] c = "U"   -> <<1, 95>>
ChunkIds == {"L1", "L63", "D", "T", "P0", "P3", "X", "U"}
ChunkSeqs == UNION {[1..k -> ChunkIds] : k \in 1..MaxChunks}
ChunkBytes(cs) == Flatten([i \in 1..Len(cs) |-> Chunk(cs[i])])
\* the offsets at which a chunk of the buffer starts
Boundaries(cs) == {Len(ChunkBytes(SubSeq(cs, 1, k))) : k \in 0..(Len(cs) - 1)}

Idle ==
    /\ recRes = None /\ pktRes = None /\ lists = <<>> /\ pkts = <<>>
    /\ wire = <<>> /\ decoded = None /\ last = "init"

InitName ==
    /\ mode = "name"
    /\ \E cs \in ChunkSeqs :
         /\ data = ChunkBytes(cs)
         /\ layout = cs
         /\ start \in Boundaries(cs)
    /\ nameRes = None
    /\ Idle

\* decode_domain_name(bytes, offset)
DecodeName ==
    /\ mode = "name"
    /\ nameRes = None
    /\ nameRes' = parse_from(data, start)
    /\ last' = "DecodeName"
    /\ UNCHANGED <<mode, data, layout, start, recRes, pktRes, lists, pkts, wire, decoded>>

\* encode_domain_name of the name just decoded
EncodeName ==
    /\ mode = "name"
    /\ nameRes.ok /\ last = "DecodeName"
    /\ wire' = DomainName_encode(nameRes.name)
    /\ last' = "EncodeName"
    /\ UNCHANGED <<mode, data, layout, start, nameRes, recRes, pktRes, lists, pkts, decoded>>

NextName == DecodeName \/ EncodeName

SpecName == InitName /\ [][NextName]_vars

(* ------------------- claims about the name decoder --------------------- *)
\* the name decoder has run on (data, start)
NameDecoded == mode = "name" /\ nameRes # None

\* C1: name decoding ends, with a name or a decode error, after a bounded
\* number of pointer jumps: a decode that ends by the decoder's own logic
\* follows no pointer twice, so it makes at most Len(data) \div 2 jumps and
\* never runs into the interpreter's recursion limit.
C1_BoundedJumps ==
    NameDecoded =>
        /\ nameRes.err # "RecursionError"
        /\ nameRes.jumps <= Len(data) \div 2

\* the length of the name on the wire, as section 3 counts it: the label
\* lengths plus one length octet per label
RECURSIVE EncodedLen(_)
EncodedLen(name) ==
    IF name = <<>> THEN 0 ELSE Len(Head(name)) + 1 + EncodedLen(Tail(name))

\* C6: every name the decoder returns has an encoded length (label lengths
\* plus one length octet per label) below 256, also when some labels came
\* through a compression pointer.
C6_NameBelow256 ==
    (NameDecoded /\ nameRes.ok) => EncodedLen(nameRes.name) < 256

RECURSIVE PtrToPtrFrom(_, _, _)
\* walking the length octets from offset and following pointers, the walk
\* arrives at a pointer whose target octet is itself a pointer (seen: the
\* offsets already walked, where the walk stops)
PtrToPtrFrom(d, offset, seen) ==
    IF offset \in seen \/ offset >= Len(d) THEN FALSE
    ELSE LET b == Byte(d, offset) IN
      IF b = 0 THEN FALSE
      ELSE IF b < 64 THEN PtrToPtrFrom(d, offset + b + 1, seen \cup {offset})
      ELSE IF b >= 192 /\ offset + 1 < Len(d) THEN
        LET ptr == (b - 192) * 256 + Byte(d, offset + 1) IN
          IF ptr >= Len(d) THEN FALSE
          ELSE IF Byte(d, ptr) >= 192 THEN TRUE
          ELSE PtrToPtrFrom(d, ptr, seen \cup {offset})
      ELSE FALSE
MeetsPtrToPtr(d, offset) == PtrToPtrFrom(d, offset, {})

\* the name decoder refuses a name whose decoding meets a pointer to a pointer
C8_PtrToPtrRejected ==
    (NameDecoded /\ MeetsPtrToPtr(data, start)) => ~nameRes.ok

\* a pointer whose target is a pointer was met after a label and refused
C8_Witness ==
    /\ NameDecoded /\ MeetsPtrToPtr(data, start) /\ Byte(data, start) < 64
    /\ nameRes.err = "PointerToPointer"

(* ------------------- inputs of the record and message decoders --------- *)
\* a resource record on the wire, class IN
RecBytes(nameBytes, rtype, ttl, rdata) ==
    nameBytes \o U16(rtype) \o U16(1) \o U32(W32(ttl)) \o U16(Len(rdata)) \o rdata

\* what follows the header is put together from items: questions, records
\* (names and RDATA with and without pointers) and padding
Item(c) ==
    CASE c = "Qa"      -> <<1, 97, 0>> \o U16(1) \o U16(1)
      [] c = "Qpp"     -> <<192, 14, 192, 16, 0, 1>>
      [] c = "RA"      -> RecBytes(<<192, 12>>, TypeA, 300, <<93, 184, 216, 34>>)
      [] c = "NSplain" -> RecBytes(<<0>>, TypeNS, 60, <<1, 98, 0>>)
      [] c = "NSptr"   -> RecBytes(<<0>>, TypeNS, 60, <<1, 98, 192, 12>>)
      [] c = "CNpad"   -> RecBytes(<<0>>, TypeCNAME, 60, <<0, 0>>)
      [] c = "PTRpad"  -> RecBytes(<<0>>, TypePTR, 60, <<192, 12, 0>>)
      [] c = "SOA"     -> RecBytes(<<0>>, TypeSOA, 60,
                              <<192, 12, 1, 98, 0>> \o U32(W32(1)) \o U32(W32(2))
                                  \o U32(W32(3)) \o U32(W32(4)))
      [] c = "SOAr"    -> RecBytes(<<0>>, TypeSOA, 60,
                              <<1, 98, 0, 192, 12>> \o U32(W32(1)) \o U32(W32(2))
                                  \o U32(W32(3)) \o U32(W32(4)))
      [] c = "NSself"  -> RecBytes(<<0>>, TypeNS, 60, <<192, 23>>)
      [] c = "Opaque"  -> RecBytes(<<0>>, 99, 60, <<7>>)
      [] c = "Pad"     -> <<0>>
QuestionItems == {"Qa", "Qpp"}
RecordItems == {"RA", "NSplain", "NSptr", "CNpad", "PTRpad", "SOA", "SOAr",
                "NSself", "Opaque"}
ItemIds == QuestionItems \cup RecordItems \cup {"Pad"}
ItemSeqs == UNION {[1..k -> ItemIds] : k \in 0..MaxItems}
\* the items the message decoder is run on
WireItemIds == ItemIds \ {"PTRpad", "SOA", "SOAr"}
WireItemSeqs == UNION {[1..k -> WireItemIds] : k \in 0..MaxItems}
ItemBytes(is) == Flatten([i \in 1..Len(is) |-> Item(is[i])])
ItemStarts(is) == {12 + Len(ItemBytes(SubSeq(is, 1, k))) : k \in 0..(Len(is) - 1)}

Header(ID, b2, b3, qd, an, ns, ar) ==
    U16(ID) \o <<b2, b3>> \o U16(qd) \o U16(an) \o U16(ns) \o U16(ar)

NoObjects == lists = <<>> /\ pkts = <<>> /\ decoded = None

InitRecord ==
    /\ mode = "record"
    /\ \E is \in ItemSeqs \ {<<>>} :
         /\ layout = is
         /\ data = Header(1, 129, 128, 1, 1, 0, 0) \o ItemBytes(is)
         /\ start \in ItemStarts(is)
    /\ nameRes = None /\ recRes = None /\ pktRes = None
    /\ wire = <<>> /\ last = "init" /\ NoObjects

\* DnsRecord.parse(data, start)
DecodeRecord ==
    /\ mode = "record"
    /\ recRes = None
    /\ recRes' = DnsRecord_parse(data, start)
    /\ last' = "DecodeRecord"
    /\ UNCHANGED <<mode, data, layout, start, nameRes, pktRes, lists, pkts,
                   wire, decoded>>

\* encode() of the record just parsed
EncodeRecord ==
    /\ mode = "record"
    /\ recRes.ok /\ last = "DecodeRecord"
    /\ wire' = DnsRecord_encode(recRes.rec)
    /\ last' = "EncodeRecord"
    /\ UNCHANGED <<mode, data, layout, start, nameRes, recRes, pktRes, lists,
                   pkts, decoded>>

NextRecord == DecodeRecord \/ EncodeRecord

SpecRecord == InitRecord /\ [][NextRecord]_vars

InitWire ==
    /\ mode = "wire"
    /\ \E is \in WireItemSeqs, f \in {<<1, 0>>, <<129, 128>>},
          qd \in {0, 1}, an \in {0, 1, 2}, ns \in {0, 1}, ar \in {0, 1} :
         /\ layout = is
         /\ data = Header(1, f[1], f[2], qd, an, ns, ar) \o ItemBytes(is)
    /\ start = 12
    /\ nameRes = None /\ recRes = None /\ pktRes = None
    /\ wire = <<>> /\ last = "init" /\ NoObjects

\* decode_message(bytes)
DecodeMessage ==
    /\ mode = "wire"
    /\ pktRes = None
    /\ pktRes' = DnsPacket_parse(data)
    /\ last' = "DecodeMessage"
    /\ UNCHANGED <<mode, data, layout, start, nameRes, recRes, lists, pkts,
                   wire, decoded>>

\* encode_message of the message just decoded
EncodeMessage ==
    /\ mode = "wire"
    /\ pktRes.ok /\ last = "DecodeMessage"
    /\ wire' = DnsPacket_encode(pktRes.pkt)
    /\ last' = "EncodeMessage"
    /\ UNCHANGED <<mode, data, layout, start, nameRes, recRes, pktRes, lists,
                   pkts, decoded>>

NextWire == DecodeMessage \/ EncodeMessage

SpecWire == InitWire /\ [][NextWire]_vars

\* both decoders, on name buffers and on messages
InitDecode == InitName \/ InitWire
NextDecode == NextName \/ NextWire
SpecDecode == InitDecode /\ [][NextDecode]_vars

(* ------------------- claims about the message decoder ------------------ *)
MessageDecoded == mode = "wire" /\ pktRes # None

\* the counts the header of the buffer declares
DeclaredQD == GetU16(data, 4)
DeclaredRecords == GetU16(data, 6) + GetU16(data, 8) + GetU16(data, 10)

\* the buffer holds the declared questions first and only records after them
QuestionsThenRecords ==
    /\ Len(layout) >= DeclaredQD
    /\ \A i \in 1..Len(layout) :
          IF i <= DeclaredQD THEN layout[i] \in QuestionItems
          ELSE layout[i] \in RecordItems
RecordsPresent == Cardinality({i \in 1..Len(layout) : layout[i] \in RecordItems})

\* C2: a message decodes only if the questions and records present match
\* the header: with fewer or more records than ANCOUNT+NSCOUNT+ARCOUNT the
\* decode fails, and every decoded message has section lengths equal to
\* QDCOUNT, ANCOUNT, NSCOUNT and ARCOUNT.
C2_CountsEnforced ==
    MessageDecoded =>
      /\ (QuestionsThenRecords /\ RecordsPresent # DeclaredRecords) => ~pktRes.ok
      /\ pktRes.ok =>
            /\ Len(pktRes.pkt.questions) = DeclaredQD
            /\ Len(pktRes.pkt.answers) = GetU16(data, 6)
            /\ Len(pktRes.pkt.nameservers) = GetU16(data, 8)
            /\ Len(pktRes.pkt.additional_records) = GetU16(data, 10)
            /\ pktRes.pkt.QDCOUNT = DeclaredQD
            /\ pktRes.pkt.ANCOUNT = GetU16(data, 6)
            /\ pktRes.pkt.NSCOUNT = GetU16(data, 8)
            /\ pktRes.pkt.ARCOUNT = GetU16(data, 10)

\* a header declaring more records than the buffer holds was refused
C2_Witness ==
    /\ MessageDecoded /\ QuestionsThenRecords
    /\ RecordsPresent >= 1 /\ RecordsPresent < DeclaredRecords
    /\ pktRes.err = "RecordCountMismatch"

\* the padding at the end of the buffer and what precedes it
RECURSIVE TrailingPads(_)
TrailingPads(is) ==
    IF is # <<>> /\ is[Len(is)] = "Pad"
      THEN 1 + TrailingPads(SubSeq(is, 1, Len(is) - 1)) ELSE 0
Unpadded == SubSeq(data, 1, Len(data) - Len(Item("Pad")) * TrailingPads(layout))

\* C4: when the buffer holds exactly the declared questions and records
\* and then extra bytes, the decode succeeds, consumes the declared records
\* only and keeps the extra bytes unchanged as the suffix.
C4_SuffixKept ==
    (MessageDecoded /\ TrailingPads(layout) > 0 /\ DnsPacket_parse(Unpadded).ok) =>
      /\ pktRes.ok
      /\ pktRes.pkt.suffix = SubSeq(data, Len(Unpadded) + 1, Len(data))
      /\ pktRes.pkt.answers = DnsPacket_parse(Unpadded).pkt.answers

\* C8: a name whose decoding meets a pointer to a pointer is never
\* returned by DomainName.parse_from, and a message whose first question
\* name, first record name or first record RDATA name is such a name fails
\* to decode as a whole.
C8_PointerChainRejected ==
    /\ C8_PtrToPtrRejected
    /\ (MessageDecoded /\ Len(data) >= 12 /\ MeetsPtrToPtr(data, 12)) => ~pktRes.ok
    /\ (MessageDecoded /\ Len(data) >= 23 /\ DeclaredQD = 0 /\ Byte(data, 12) = 0
          /\ CompressionAllowed(GetU16(data, 13)) /\ MeetsPtrToPtr(data, 23))
         => ~pktRes.ok

(* ------------------- claims about the record decoder ------------------- *)
RecordDecoded == mode = "record" /\ recRes # None

RECURSIVE WalkToPointer(_, _, _)
\* the labels from offset up to the first pointer, walking length octets
WalkToPointer(d, offset, labels) ==
    IF offset >= Len(d) THEN [found |-> FALSE, labels |-> labels, at |-> 0, target |-> 0]
    ELSE LET b == Byte(d, offset) IN
      IF b >= 192 /\ offset + 1 < Len(d)
        THEN [found |-> TRUE, labels |-> labels, at |-> offset,
              target |-> (b - 192) * 256 + Byte(d, offset + 1)]
      ELSE IF b >= 1 /\ b < 64 /\ offset + b < Len(d)
        THEN WalkToPointer(d, offset + b + 1,
                           Append(labels, SubSeq(d, offset + 2, offset + 1 + b)))
      ELSE [found |-> FALSE, labels |-> labels, at |-> 0, target |-> 0]

\* the record at start, as the wire lays it out
RecName == parse_from(data, start)
RecType == GetU16(data, RecName.offset)
RecRdlength == GetU16(data, RecName.offset + 8)
RecRdataAt == RecName.offset + 10
RecRaw == SubSeq(data, RecRdataAt + 1, RecRdataAt + RecRdlength)
FirstQuestion == DnsQuestion_parse(data, 12)

\* the first name of the RDATA and, for SOA, the second: where each ends on
\* the wire and whether it reaches a pointer to the question's name within
\* the RDATA
Mname == WalkToPointer(data, RecRdataAt, <<>>)
MnameEnd == IF Mname.found THEN Mname.at + 2 ELSE parse_from(data, RecRdataAt).offset
Rname == WalkToPointer(data, MnameEnd, <<>>)
RnameEnd == IF Rname.found THEN Rname.at + 2 ELSE parse_from(data, MnameEnd).offset
PointsAt12(w) ==
    /\ w.found /\ w.target = 12 /\ w.at + 2 <= RecRdataAt + RecRdlength
    /\ \A i \in 1..Len(w.labels) :
          \A j \in 1..Len(w.labels[i]) : w.labels[i][j] \in allowed_charset
    /\ SumLen(w.labels) < NameLimit

\* the record at start follows the question at offset 12, is of a type that
\* allows compression, and a name of its RDATA holds (after well-formed
\* labels, if any) a pointer to the start of that question's name
PointsAtQuestion ==
    /\ FirstQuestion.ok /\ start >= FirstQuestion.offset
    /\ RecName.ok /\ RecRdataAt <= Len(data)
    /\ RecRdataAt + RecRdlength <= Len(data)
    /\ CompressionAllowed(RecType)
    /\ \/ PointsAt12(Mname)
       \/ /\ RecType = TypeSOA /\ ~Mname.found
          /\ parse_from(data, RecRdataAt).ok /\ PointsAt12(Rname)

\* the name a walk w from offset resolves to
Resolved(w, offset) ==
    IF PointsAt12(w) THEN w.labels \o FirstQuestion.q.name
    ELSE parse_from(data, offset).name

\* the name of the RDATA that holds the pointer, uncompressed
ResolvedName ==
    IF PointsAt12(Mname) THEN DomainName_encode(Resolved(Mname, RecRdataAt))
    ELSE DomainName_encode(Resolved(Rname, MnameEnd))

\* C7 as stated: for NS, CNAME, PTR and SOA alike the record's rdata is
\* the uncompressed encoding of the labels before the pointer followed by
\* the question's name, and the offset advances by rdlength.
C7_RdataIsResolvedName ==
    (RecordDecoded /\ PointsAtQuestion) =>
      /\ recRes.ok
      /\ recRes.rec.rdata = ResolvedName
      /\ recRes.offset = RecRdataAt + RecRdlength

\* the two names and the four integers of an SOA payload are all there
SoaComplete ==
    /\ parse_from(data, RecRdataAt).ok
    /\ parse_from(data, MnameEnd).ok
    /\ RnameEnd + 16 <= Len(data)

\* C7 (amended): the pointer is resolved against the whole buffer and the
\* offset advances by rdlength past the fixed header; for NS, CNAME and PTR
\* the rdata is the uncompressed encoding of the resolved name, for SOA it
\* is the uncompressed MNAME, the uncompressed RNAME (the one of them that
\* holds the pointer resolved in that way) and the four 32-bit fields.
C7_PointerResolved ==
    (RecordDecoded /\ PointsAtQuestion) =>
      IF RecType = TypeSOA
        THEN SoaComplete =>
               /\ recRes.ok
               /\ recRes.rec.rdata =
                    DomainName_encode(Resolved(Mname, RecRdataAt))
                      \o DomainName_encode(Resolved(Rname, MnameEnd))
                      \o SubSeq(data, RnameEnd + 1, RnameEnd + 16)
               /\ recRes.offset = RecRdataAt + RecRdlength
        ELSE /\ recRes.ok
             /\ recRes.rec.rdata = ResolvedName
             /\ recRes.offset = RecRdataAt + RecRdlength

\* a record with a label and then a pointer to the question was decoded
C7_Witness ==
    /\ RecordDecoded /\ PointsAtQuestion /\ recRes.ok
    /\ Mname.labels # <<>>
    /\ recRes.rec.rdata = <<1, 98, 1, 97, 0>>

RECURSIVE NameHasPointer(_, _)
\* the name at offset in raw reaches, after its labels, a pointer octet
NameHasPointer(raw, offset) ==
    IF offset < 0 \/ offset >= Len(raw) THEN FALSE
    ELSE LET b == raw[offset + 1] IN
      IF b >= 192 THEN TRUE
      ELSE IF b >= 1 /\ b < 64 THEN NameHasPointer(raw, offset + b + 1)
      ELSE FALSE

RECURSIVE PlainNameEnd(_, _)
\* the offset after an uncompressed name at offset in raw, or -1
PlainNameEnd(raw, offset) ==
    IF offset < 0 \/ offset >= Len(raw) THEN -1
    ELSE LET b == raw[offset + 1] IN
      IF b = 0 THEN offset + 1
      ELSE IF b < 64 THEN PlainNameEnd(raw, offset + b + 1)
      ELSE -1

\* raw is exactly the uncompressed encoding of the payload of its type
Canonical(rtype, raw) ==
    IF rtype = TypeSOA
      THEN PlainNameEnd(raw, PlainNameEnd(raw, 0)) + 16 = Len(raw)
           /\ PlainNameEnd(raw, PlainNameEnd(raw, 0)) > 0
      ELSE PlainNameEnd(raw, 0) = Len(raw)

\* a name of the raw RDATA (the one of NS, CNAME, PTR; MNAME or RNAME of
\* SOA) holds a compression pointer
UsesCompression(rtype, raw) ==
    \/ NameHasPointer(raw, 0)
    \/ rtype = TypeSOA /\ NameHasPointer(raw, PlainNameEnd(raw, 0))

\* the rdlength field and the rdata octets in what encode() emits
EmittedRdlength(r) == GetU16(DnsRecord_encode(r), Len(DomainName_encode(r.name)) + 8)
EmittedRdata(r) ==
    SubSeq(DnsRecord_encode(r), Len(DomainName_encode(r.name)) + 11,
           Len(DnsRecord_encode(r)))

\* C9 as stated: for NS, SOA, CNAME and PTR the rdata is replaced and
\* compressed_rdata attached exactly when the raw RDATA used compression;
\* the emitted rdlength is the length of the emitted rdata.
C9_AttachedIffCompressed ==
    (RecordDecoded /\ recRes.ok /\ CompressionAllowed(recRes.rec.rtype)) =>
      /\ recRes.rec.has_compressed <=> UsesCompression(recRes.rec.rtype, RecRaw)
      /\ ~UsesCompression(recRes.rec.rtype, RecRaw) => recRes.rec.rdata = RecRaw
      /\ EmittedRdlength(recRes.rec) = Len(EmittedRdata(recRes.rec))

\* C9 (amended): the rdata is replaced and compressed_rdata attached exactly
\* when the raw RDATA is not the uncompressed encoding of its payload: when
\* it uses a pointer, and also when a pointer-free name is followed by
\* further octets within rdlength. The emitted rdlength is the length of
\* the emitted rdata.
C9_AttachedIffNotCanonical ==
    (RecordDecoded /\ recRes.ok /\ CompressionAllowed(recRes.rec.rtype)) =>
      /\ recRes.rec.has_compressed <=> ~Canonical(recRes.rec.rtype, RecRaw)
      /\ UsesCompression(recRes.rec.rtype, RecRaw) => recRes.rec.has_compressed
      /\ recRes.rec.has_compressed =>
            /\ recRes.rec.compressed_rdata = RecRaw
            /\ recRes.rec.rdata # RecRaw
            /\ Canonical(recRes.rec.rtype, recRes.rec.rdata)
      /\ ~recRes.rec.has_compressed => recRes.rec.rdata = RecRaw
      /\ EmittedRdlength(recRes.rec) = Len(EmittedRdata(recRes.rec))

\* a pointer-free RDATA with an octet after its name was replaced
C9_Witness ==
    /\ RecordDecoded /\ recRes.ok /\ CompressionAllowed(recRes.rec.rtype)
    /\ ~UsesCompression(recRes.rec.rtype, RecRaw)
    /\ recRes.rec.has_compressed
    /\ wire = DnsRecord_encode(recRes.rec) /\ last = "EncodeRecord"

(* ------------------- messages built programmatically ------------------- *)
\* The four default arguments questions=[], answers=[], nameservers=[],
\* additional_records=[] of DnsPacket.__init__ are evaluated once, when the
\* function is defined: lists[1..4] are those four list objects. A section
\* of a packet in pkts is the index in lists of the list object it refers to.
DefaultLists == <<1, 2, 3, 4>>

\* the ID default, random.getrandbits(16), is evaluated once as well
DefaultID == 7

name_a == << <<97>> >>
root_label == DomainName(<<>>)
BuildQuestions == {Question(name_a, TypeA, 1)}
BuildRecords == {Record(name_a, TypeA, 1, W32(300), <<93, 184, 216, 34>>),
                 Record(root_label, TypeCNAME, 1, W32(60), <<0, 0>>)}
EntriesFor(k) == IF k = 1 THEN BuildQuestions ELSE BuildRecords

RECURSIVE TotalEntries(_)
TotalEntries(ls) == IF ls = <<>> THEN 0 ELSE Len(Head(ls)) + TotalEntries(Tail(ls))

\* the packet with its sections read through the references
Resolve(pk) ==
    [pk EXCEPT !.questions = lists[pk.questions],
               !.answers = lists[pk.answers],
               !.nameservers = lists[pk.nameservers],
               !.additional_records = lists[pk.additional_records]]

SectionRef(pk, k) ==
    CASE k = 1 -> pk.questions
      [] k = 2 -> pk.answers
      [] k = 3 -> pk.nameservers
      [] k = 4 -> pk.additional_records

\* if QDCOUNT is None: QDCOUNT = len(questions), and so on
CountArg(arg, section) == IF arg = -1 THEN Len(section) ELSE arg

InitBuild ==
    /\ mode = "build"
    /\ lists = << <<>>, <<>>, <<>>, <<>> >>
    /\ pkts = <<>>
    /\ data = <<>> /\ layout = <<>> /\ start = 0
    /\ nameRes = None /\ recRes = None /\ pktRes = None
    /\ wire = <<>> /\ decoded = None /\ last = "init"

\* DnsPacket(QR=..., QDCOUNT=..., ANCOUNT=..., questions=..., answers=...):
\* a count argument of -1 stands for None; passed[k] tells whether section k
\* is passed (a new list object holding given[k]) or omitted
Construct ==
    /\ mode = "build"
    /\ Len(pkts) < MaxPkts
    /\ \E QR \in {1}, qd \in {-1, 1}, an \in {-1},
          passed \in [1..2 -> BOOLEAN],
          gq \in {<<>>} \cup {<<q>> : q \in BuildQuestions},
          ga \in {<<>>} \cup {<<r>> : r \in BuildRecords} :
         LET given == <<gq, ga>>
             new == SelectSeq(<<1, 2>>, LAMBDA k : passed[k])
             ref(k) == IF k <= 2 /\ passed[k]
                         THEN Len(lists) + (IF k = 2 /\ passed[1] THEN 2 ELSE 1)
                         ELSE DefaultLists[k]
             lists2 == lists \o [i \in 1..Len(new) |-> given[new[i]]]
         IN /\ \A k \in 1..2 : ~passed[k] => given[k] = <<>>
            /\ TotalEntries(lists2) <= MaxEntries
            /\ lists' = lists2
            /\ pkts' = Append(pkts,
                  Packet(DefaultID, QR, 0, FALSE, FALSE, TRUE, TRUE, 0, 0,
                         CountArg(qd, lists2[ref(1)]), CountArg(an, lists2[ref(2)]),
                         CountArg(-1, lists2[ref(3)]), CountArg(-1, lists2[ref(4)]),
                         ref(1), ref(2), ref(3), ref(4), <<>>))
            /\ start' = Len(pkts) + 1
    /\ wire' = <<>> /\ decoded' = None /\ last' = "Construct"
    /\ UNCHANGED <<mode, data, layout, nameRes, recRes, pktRes>>

\* pkts[i].<section k>.append(e)
AppendEntry ==
    /\ mode = "build"
    /\ TotalEntries(lists) < MaxEntries
    /\ \E i \in 1..Len(pkts), k \in 1..4 : \E e \in EntriesFor(k) :
         /\ lists' = [lists EXCEPT ![SectionRef(pkts[i], k)] = Append(@, e)]
         /\ start' = i
    /\ wire' = <<>> /\ decoded' = None /\ last' = "AppendEntry"
    /\ UNCHANGED <<mode, data, layout, nameRes, recRes, pktRes, pkts>>

\* pkts[i].<section k>.pop()
RemoveEntry ==
    /\ mode = "build"
    /\ \E i \in 1..Len(pkts), k \in 1..4 :
         /\ lists[SectionRef(pkts[i], k)] # <<>>
         /\ lists' = [lists EXCEPT ![SectionRef(pkts[i], k)] =
                          SubSeq(@, 1, Len(@) - 1)]
         /\ start' = i
    /\ wire' = <<>> /\ decoded' = None /\ last' = "RemoveEntry"
    /\ UNCHANGED <<mode, data, layout, nameRes, recRes, pktRes, pkts>>

\* wire = pkts[i].encode()
Encode ==
    /\ mode = "build"
    /\ last \notin {"Encode", "Decode"}
    /\ \E i \in 1..Len(pkts) :
         /\ wire' = DnsPacket_encode(Resolve(pkts[i]))
         /\ start' = i
    /\ decoded' = None /\ last' = "Encode"
    /\ UNCHANGED <<mode, data, layout, nameRes, recRes, pktRes, lists, pkts>>

\* DnsPacket.parse(wire) of what encode() returned
Decode ==
    /\ mode = "build"
    /\ last = "Encode"
    /\ decoded' = DnsPacket_parse(wire)
    /\ last' = "Decode"
    /\ UNCHANGED <<mode, data, layout, start, nameRes, recRes, pktRes, lists,
                   pkts, wire>>

NextBuild == Construct \/ AppendEntry \/ RemoveEntry \/ Encode \/ Decode

SpecBuild == InitBuild /\ [][NextBuild]_vars

Init == InitName \/ InitRecord \/ InitWire \/ InitBuild
Next == NextName \/ NextRecord \/ NextWire \/ NextBuild
Spec == Init /\ [][Next]_vars

(* ------------------- claims about built messages ----------------------- *)
\* the message encode() was last called on
Encoded == Resolve(pkts[start])

\* C3: the four count fields of an encoded header are the lengths of the
\* four section sequences at the time of the call, however the message was
\* constructed and whatever was appended or removed since.
C3_HeaderCountsAreLengths ==
    (mode = "build" /\ last = "Encode") =>
      /\ GetU16(wire, 4) = Len(Encoded.questions)
      /\ GetU16(wire, 6) = Len(Encoded.answers)
      /\ GetU16(wire, 8) = Len(Encoded.nameservers)
      /\ GetU16(wire, 10) = Len(Encoded.additional_records)

\* name, type, class, ttl and rdata of each record
RecordFields(rs) ==
    [i \in 1..Len(rs) |-> <<rs[i].name, rs[i].rtype, rs[i].rclass, rs[i].ttl,
                             rs[i].rdata>>]

\* C5: a message built from valid labels and without compression pointers
\* decodes from its own encoding to a message equal to it field for field,
\* with each count equal to the length of its section.
C5_RoundTrip ==
    (mode = "build" /\ last = "Decode") =>
      /\ decoded.ok
      /\ \A f \in {"ID", "QR", "OPCODE", "AA", "TC", "RD", "RA", "Z", "RCODE",
                    "questions"} : decoded.pkt[f] = Encoded[f]
      /\ \A f \in {"answers", "nameservers", "additional_records"} :
            RecordFields(decoded.pkt[f]) = RecordFields(Encoded[f])
      /\ decoded.pkt.QDCOUNT = Len(decoded.pkt.questions)
      /\ decoded.pkt.ANCOUNT = Len(decoded.pkt.answers)
      /\ decoded.pkt.NSCOUNT = Len(decoded.pkt.nameservers)
      /\ decoded.pkt.ARCOUNT = Len(decoded.pkt.additional_records)

\* packet i was constructed with all four section arguments omitted
\* (every list object passed to a constructor is a new one)
SectionsOmitted(i) ==
    \A k \in 1..4 : SectionRef(pkts[i], k) = DefaultLists[k]

\* C10: an append to a section of one message built with its section
\* arguments omitted leaves every section of every other such message
\* unchanged.
C10_DefaultsIndependent ==
    [][(mode = "build" /\ last' = "AppendEntry") =>
         \A j \in 1..Len(pkts) :
            (j # start' /\ SectionsOmitted(j) /\ SectionsOmitted(start'))
               => Resolve(pkts[j])' = Resolve(pkts[j])]_vars

====
